---- MODULE Spec2Model ----
(***************************************************************************)
(* A model of fraud_detection.py: the interactive column mapping           *)
(* (auto_find_column, ask_column, get_column_mapping), the land-mismatch   *)
(* detector (detect_land_mismatch_with_mapping), the dealer detector       *)
(* (detect_dealer_by_avg_tx) and main().                                   *)
(*                                                                         *)
(* A Python str is modelled as the sequence of its characters, each a      *)
(* one-character string: "Id" is <<"I", "d">>.  A DataFrame is a record    *)
(* [cols, rows]: the column names in order and the rows in order, each row *)
(* the sequence of its cells aligned with cols.  A cell is a record        *)
(* [kind, n, s]: an integer ("int"), an integer-valued float ("float"),    *)
(* a text ("str") or a missing value ("nan").  Quantities, land sizes and  *)
(* limits are integers; an average and a quantile are exact rationals      *)
(* <<numerator, denominator>> (floating-point rounding is not modelled).   *)
(***************************************************************************)
EXTENDS Integers, Sequences, FiniteSets, TLC

VARIABLES
    df_farmers,        \* main: the farmers DataFrame
    df_trans,          \* main: the transactions DataFrame
    pc,                \* the position of the run
    role,              \* get_column_mapping: index of the ask_column call in progress
    locals,            \* get_column_mapping: fam_id_col, trans_fid_col, name_col, ...
    resps,             \* ask_column: the raw input() lines read by the call in progress
    sel,               \* ask_column: sel
    mapping,           \* the mapping dict (NoMapping until line 185 builds it)
    limit_per_acre,    \* detect_land_mismatch_with_mapping: limit_per_acre of the last call
    suspicious,        \* its result (NotRun before the call)
    avg_tx_percentile, \* detect_dealer_by_avg_tx: the parameters of the last call
    min_avg_kg,
    dealers            \* its result (NotRun before the call)

vars == << df_farmers, df_trans, pc, role, locals, resps, sel, mapping,
           limit_per_acre, suspicious, avg_tx_percentile, min_avg_kg, dealers >>

(***************************************************************************)
(* Bounds of the model.                                                    *)
(***************************************************************************)
MaxFarmers == 2
MaxTrans == 1
MaxDealerTx == 3

(***************************************************************************)
(* Python str operations.                                                  *)
(***************************************************************************)
UpperChars ==
    << "A", "B", "C", "D", "E", "F", "G", "H", "I", "J", "K", "L", "M",
       "N", "O", "P", "Q", "R", "S", "T", "U", "V", "W", "X", "Y", "Z" >>

LowerChars ==
    << "a", "b", "c", "d", "e", "f", "g", "h", "i", "j", "k", "l", "m",
       "n", "o", "p", "q", "r", "s", "t", "u", "v", "w", "x", "y", "z" >>

Whitespace == {" ", "\t"}

\* c.lower() of one character
LowerChar(c) ==
    IF \E i \in 1..Len(UpperChars) : UpperChars[i] = c
    THEN LowerChars[CHOOSE i \in 1..Len(UpperChars) : UpperChars[i] = c]
    ELSE c

\* s.lower()
str_lower(s) == [i \in 1..Len(s) |-> LowerChar(s[i])]

\* sub in s
str_in(sub, s) ==
    \E i \in 0..(Len(s) - Len(sub)) : SubSeq(s, i + 1, i + Len(sub)) = sub

\* s.strip(): leading and trailing whitespace removed
str_strip(s) ==
    LET keep == {i \in 1..Len(s) : s[i] \notin Whitespace}
    IN  IF keep = {} THEN << >>
        ELSE LET lo == CHOOSE i \in keep : \A j \in keep : i <= j
                 hi == CHOOSE i \in keep : \A j \in keep : j <= i
             IN  SubSeq(s, lo, hi)

\* x in a list
InList(x, list) == \E i \in 1..Len(list) : list[i] = x

(***************************************************************************)
(* Markers: Python's None, and a local variable not assigned yet.          *)
(***************************************************************************)
None == << "<None>" >>
Unset == << "<unset>" >>
NoMapping == [status |-> "no mapping"]

(***************************************************************************)
(* auto_find_column(columns, keywords): keyword by keyword, the first      *)
(* column whose lower-cased name contains the lower-cased keyword.         *)
(***************************************************************************)
auto_find_column(columns, keywords) ==
    LET cols_low == [i \in 1..Len(columns) |-> str_lower(columns[i])]
        hit(kw, i) == str_in(str_lower(keywords[kw]), cols_low[i])
        hits == {kw \in 1..Len(keywords) : \E i \in 1..Len(columns) : hit(kw, i)}
    IN  IF hits = {} THEN None
        ELSE LET kw == CHOOSE a \in hits : \A b \in hits : a <= b
                 ci == CHOOSE i \in 1..Len(columns) :
                          /\ hit(kw, i)
                          /\ \A j \in 1..Len(columns) : hit(kw, j) => i <= j
             IN  columns[ci]

(***************************************************************************)
(* ask_column, lines 20-25: the default is the first candidate that is a   *)
(* column; None when there is no candidate list or none is a column.       *)
(***************************************************************************)
ask_default(df_columns, default_candidates) ==
    LET ok == {i \in 1..Len(default_candidates) :
                   InList(default_candidates[i], df_columns)}
    IN  IF ok = {} THEN None
        ELSE default_candidates[CHOOSE i \in ok : \A j \in ok : i <= j]

\* lines 38-40 and 47-49: sel = input().strip(); the default on an empty sel
ask_choice(line, default) ==
    LET typed == str_strip(line)
    IN  IF typed = << >> /\ default # None THEN default ELSE typed

\* ask_valid with an empty sel accepted although no default exists
ask_valid_or_empty(choice, df_columns) ==
    choice = << >> \/ InList(choice, df_columns)

\* ask_valid comparing the names without regard to case
ask_valid_ignoring_case(choice, df_columns) ==
    \E i \in 1..Len(df_columns) : str_lower(df_columns[i]) = str_lower(choice)

\* lines 43 and 50: sel in df_columns
ask_valid(choice, df_columns) == InList(choice, df_columns)

(***************************************************************************)
(* Cells and pandas' conversions.                                          *)
(***************************************************************************)
IntCell(n) == [kind |-> "int", n |-> n, s |-> << >>]
StrCell(s) == [kind |-> "str", n |-> 0, s |-> s]
NaN == [kind |-> "nan", n |-> 0, s |-> << >>]

Digits == << "0", "1", "2", "3", "4", "5", "6", "7", "8", "9" >>

IsDigit(c) == \E i \in 1..Len(Digits) : Digits[i] = c
DigitValue(c) == (CHOOSE i \in 1..Len(Digits) : Digits[i] = c) - 1

\* str(n) of a natural number
RECURSIVE NatToStr(_)
NatToStr(n) ==
    IF n < 10 THEN << Digits[n + 1] >>
    ELSE NatToStr(n \div 10) \o << Digits[(n % 10) + 1] >>

\* str(n) of an int
IntToStr(n) == IF n < 0 THEN << "-" >> \o NatToStr(-n) ELSE NatToStr(n)

\* int(s) of a digit string
RECURSIVE DigitsToNat(_)
DigitsToNat(s) ==
    IF s = << >> THEN 0
    ELSE 10 * DigitsToNat(SubSeq(s, 1, Len(s) - 1)) + DigitValue(s[Len(s)])

\* Series.astype(str) of one cell: str(value); a missing value becomes "nan"
astype_str(cell) ==
    CASE cell.kind = "int" -> StrCell(IntToStr(cell.n))
      [] cell.kind = "float" -> StrCell(IntToStr(cell.n) \o << ".", "0" >>)
      [] cell.kind = "str" -> cell
      [] OTHER -> StrCell(<< "n", "a", "n" >>)

\* pd.to_numeric(errors="coerce") of one cell: a number stays, a text is
\* parsed ([-]digits[.0]), anything else becomes NaN
to_numeric(cell) ==
    CASE cell.kind \in {"int", "float"} -> IntCell(cell.n)
      [] cell.kind = "str" ->
            LET t0 == str_strip(cell.s)
                neg == t0 # << >> /\ t0[1] = "-"
                t1 == IF neg THEN SubSeq(t0, 2, Len(t0)) ELSE t0
                pt == Len(t1) >= 2 /\ SubSeq(t1, Len(t1) - 1, Len(t1)) = << ".", "0" >>
                t2 == IF pt THEN SubSeq(t1, 1, Len(t1) - 2) ELSE t1
            IN  IF t2 # << >> /\ \A i \in 1..Len(t2) : IsDigit(t2[i])
                THEN IntCell(IF neg THEN -DigitsToNat(t2) ELSE DigitsToNat(t2))
                ELSE NaN
      [] OTHER -> NaN

\* Series.fillna(0.0) of one cell
fillna0(cell) == IF cell.kind = "nan" THEN IntCell(0) ELSE cell

\* a * b of a numeric cell and a number: NaN propagates
num_mul(cell, x) == IF cell.kind = "nan" THEN NaN ELSE IntCell(cell.n * x)

\* a > b of two numeric cells: False when either is NaN
num_gt(a, b) == a.kind # "nan" /\ b.kind # "nan" /\ a.n > b.n

(***************************************************************************)
(* DataFrames.                                                             *)
(***************************************************************************)
Frame(cols, rows) == [cols |-> cols, rows |-> rows]

HasCol(df, c) == InList(c, df.cols)

ColIdx(df, c) ==
    CHOOSE i \in 1..Len(df.cols) :
        /\ df.cols[i] = c
        /\ \A j \in 1..Len(df.cols) : df.cols[j] = c => i <= j

\* df[c] of one row
Cell(df, row, c) == row[ColIdx(df, c)]

\* A dict literal is a sequence of <<key, value>> pairs; a repeated key keeps
\* its last value.
DictHas(dict, key) == \E i \in 1..Len(dict) : dict[i][1] = key

DictGet(dict, key) ==
    dict[CHOOSE i \in 1..Len(dict) :
            /\ dict[i][1] = key
            /\ \A j \in 1..Len(dict) : dict[j][1] = key => j <= i][2]

\* df.rename(columns=dict): a key that is no column is ignored
rename(df, dict) ==
    Frame([i \in 1..Len(df.cols) |->
              IF DictHas(dict, df.cols[i]) THEN DictGet(dict, df.cols[i])
              ELSE df.cols[i]],
          df.rows)

\* df[c] = f(row) for every row: the column is replaced, or appended when new
SetCol(df, c, f(_)) ==
    IF HasCol(df, c)
    THEN Frame(df.cols,
               [r \in 1..Len(df.rows) |->
                   [df.rows[r] EXCEPT ![ColIdx(df, c)] = f(df.rows[r])]])
    ELSE Frame(Append(df.cols, c),
               [r \in 1..Len(df.rows) |-> Append(df.rows[r], f(df.rows[r]))])

\* df[cols] (every name of cols is a column of df)
Project(df, cols) ==
    Frame(cols,
          [r \in 1..Len(df.rows) |->
              [i \in 1..Len(cols) |-> Cell(df, df.rows[r], cols[i])]])

RECURSIVE Concat(_)
Concat(seqs) ==
    IF seqs = << >> THEN << >> ELSE Head(seqs) \o Concat(Tail(seqs))

\* The members of a finite set of integers, in ascending order
RECURSIVE Ascending(_)
Ascending(S) ==
    IF S = {} THEN << >>
    ELSE LET lo == CHOOSE i \in S : \A j \in S : i <= j
         IN  << lo >> \o Ascending(S \ {lo})

(***************************************************************************)
(* pd.merge(left, right, on=key, how="left", suffixes=(ls, rs)): every     *)
(* left row is kept, in order, once per right row with an equal key (in    *)
(* the right frame's order), or once with NaN for the right columns when   *)
(* there is none.  A non-key column name the two frames share gets the     *)
(* suffixes.                                                               *)
(***************************************************************************)
merge_left(left, right, key, ls, rs) ==
    LET shared(c) == c # key /\ HasCol(left, c) /\ HasCol(right, c)
        rkeep == Ascending({i \in 1..Len(right.cols) : right.cols[i] # key})
        lcols == [i \in 1..Len(left.cols) |->
                     IF shared(left.cols[i]) THEN left.cols[i] \o ls
                     ELSE left.cols[i]]
        rcols == [i \in 1..Len(rkeep) |->
                     IF shared(right.cols[rkeep[i]]) THEN right.cols[rkeep[i]] \o rs
                     ELSE right.cols[rkeep[i]]]
        rpart(j) == [i \in 1..Len(rkeep) |-> right.rows[j][rkeep[i]]]
        nopart == [i \in 1..Len(rkeep) |-> NaN]
        joined(l) ==
            LET lrow == left.rows[l]
                m == Ascending({j \in 1..Len(right.rows) :
                                   Cell(right, right.rows[j], key)
                                       = Cell(left, lrow, key)})
            IN  IF m = << >> THEN << lrow \o nopart >>
                ELSE [x \in 1..Len(m) |-> lrow \o rpart(m[x])]
    IN  Frame(lcols \o rcols,
              Concat([l \in 1..Len(left.rows) |-> joined(l)]))

(***************************************************************************)
(* The canonical column names the detectors rename to.                     *)
(***************************************************************************)
FarmerID == << "F", "a", "r", "m", "e", "r", "I", "D" >>
LandSize_Acres ==
    << "L", "a", "n", "d", "S", "i", "z", "e", "_", "A", "c", "r", "e", "s" >>
Name == << "N", "a", "m", "e" >>
TransactionID ==
    << "T", "r", "a", "n", "s", "a", "c", "t", "i", "o", "n", "I", "D" >>
DealerID == << "D", "e", "a", "l", "e", "r", "I", "D" >>
Quantity_KG == << "Q", "u", "a", "n", "t", "i", "t", "y", "_", "K", "G" >>
VillageID == << "V", "i", "l", "l", "a", "g", "e", "I", "D" >>
Max_Allowed_KG ==
    << "M", "a", "x", "_", "A", "l", "l", "o", "w", "e", "d", "_", "K", "G" >>

\* The result of a detector call: "ok" with a frame, "KeyError", or "not run"
Result(status, cols, rows) == [status |-> status, cols |-> cols, rows |-> rows]
NotRun == Result("not run", << >>, << >>)

(***************************************************************************)
(* detect_land_mismatch_with_mapping.                                      *)
(***************************************************************************)
\* lines 208, 212-217: the farmers frame under its canonical names
land_farmers(farmers, map) ==
    LET f1 == rename(farmers, << << map.farmers.farmer_id, FarmerID >>,
                                 << map.farmers.land, LandSize_Acres >> >>)
    IN  IF map.farmers.name # None
        THEN rename(f1, << << map.farmers.name, Name >> >>)
        ELSE f1

\* lines 209, 219-226: the transactions frame under its canonical names
land_trans(trans, map) ==
    LET t1 == rename(trans, << << map.transactions.farmer_id, FarmerID >>,
                               << map.transactions.transaction_id, TransactionID >>,
                               << map.transactions.dealer_id, DealerID >>,
                               << map.transactions.quantity, Quantity_KG >> >>)
    IN  IF map.transactions.village # None
        THEN rename(t1, << << map.transactions.village, VillageID >> >>)
        ELSE t1

\* merged.get(c) of one row: the cell, or None (which to_numeric coerces to
\* NaN) when merged has no column c
frame_get(df, row, c) == IF HasCol(df, c) THEN Cell(df, row, c) ELSE NaN

\* line 247: Max_Allowed_KG = LandSize_Acres * float(limit_per_acre)
max_allowed(land, limit) == num_mul(land, limit)

\* land_flag with >= for >
land_flag_inclusive(quantity, allowed) ==
    quantity.kind # "nan" /\ allowed.kind # "nan" /\ quantity.n >= allowed.n

\* land_flag with < for >
land_flag_inverted(quantity, allowed) ==
    quantity.kind # "nan" /\ allowed.kind # "nan" /\ quantity.n < allowed.n

\* line 249: Quantity_KG > Max_Allowed_KG
land_flag(quantity, allowed) == num_gt(quantity, allowed)

\* The value astype(str) sees: a column of numbers with a missing value is
\* float64, so its integers are floats (1 -> 1.0)
column_value(df, c, cell) ==
    IF /\ cell.kind = "int"
       /\ \A r \in 1..Len(df.rows) : Cell(df, df.rows[r], c).kind # "str"
       /\ \E r \in 1..Len(df.rows) : Cell(df, df.rows[r], c).kind = "nan"
    THEN [cell EXCEPT !.kind = "float"]
    ELSE cell

\* lines 229-230: df[c] = df[c].astype(str)
astype_str_col(df, c) ==
    SetCol(df, c, LAMBDA row : astype_str(column_value(df, c, Cell(df, row, c))))

\* lines 236-237: df[c] = pd.to_numeric(df.get(c), errors="coerce")
to_numeric_col(df, c) ==
    SetCol(df, c, LAMBDA row : to_numeric(frame_get(df, row, c)))

\* line 247: df["Max_Allowed_KG"] = df["LandSize_Acres"] * float(limit_per_acre)
max_allowed_col(df, limit) ==
    SetCol(df, Max_Allowed_KG,
           LAMBDA row : max_allowed(Cell(df, row, LandSize_Acres), limit))

\* lines 229-247: merged, given both frames have a FarmerID column
land_merged(farmers, trans, limit) ==
    max_allowed_col(
        to_numeric_col(
            to_numeric_col(
                merge_left(astype_str_col(trans, FarmerID),
                           astype_str_col(farmers, FarmerID),
                           FarmerID, << "_", "t", "r", "a", "n", "s" >>,
                           << "_", "f", "a", "r", "m" >>),
                LandSize_Acres),
            Quantity_KG),
        limit)

\* line 249: merged[merged["Quantity_KG"] > merged["Max_Allowed_KG"]]
land_suspicious(merged) ==
    LET hit == Ascending({r \in 1..Len(merged.rows) :
                   land_flag(Cell(merged, merged.rows[r], Quantity_KG),
                             Cell(merged, merged.rows[r], Max_Allowed_KG))})
    IN  Frame(merged.cols, [i \in 1..Len(hit) |-> merged.rows[hit[i]]])

\* lines 251-259: the output columns, those that exist
land_out_cols(df) ==
    LET want == << TransactionID, FarmerID >>
                \o (IF HasCol(df, Name) THEN << Name >> ELSE << >>)
                \o << LandSize_Acres, Quantity_KG, Max_Allowed_KG, DealerID >>
                \o (IF HasCol(df, VillageID) THEN << VillageID >> ELSE << >>)
        keep == Ascending({i \in 1..Len(want) : HasCol(df, want[i])})
    IN  [i \in 1..Len(keep) |-> want[keep[i]]]

\* lines 251-260: suspicious[out_cols].reset_index(drop=True)
land_output(susp) ==
    LET out == Project(susp, land_out_cols(susp))
    IN  Result("ok", out.cols, out.rows)

detect_land_mismatch_with_mapping(farmers, trans, map, limit) ==
    IF \/ ~HasCol(land_farmers(farmers, map), FarmerID)
       \/ ~HasCol(land_trans(trans, map), FarmerID)
    THEN Result("KeyError", << >>, << >>)
    ELSE land_output(land_suspicious(
             land_merged(land_farmers(farmers, map), land_trans(trans, map), limit)))

(***************************************************************************)
(* Exact rationals <<n, d>>, d > 0, in lowest terms: the value of a float  *)
(* division and of the quantile's interpolation.                           *)
(***************************************************************************)
RECURSIVE GCD(_, _)
GCD(a, b) == IF b = 0 THEN a ELSE GCD(b, a % b)


Rat(n, d) ==
    LET g == GCD(IF n < 0 THEN -n ELSE n, d)
    IN  << n \div g, d \div g >>

RatAdd(a, b) == Rat(a[1] * b[2] + b[1] * a[2], a[2] * b[2])
RatSub(a, b) == Rat(a[1] * b[2] - b[1] * a[2], a[2] * b[2])
RatMul(a, b) == Rat(a[1] * b[1], a[2] * b[2])
RatLe(a, b) == a[1] * b[2] <= b[1] * a[2]
RatMax(a, b) == IF RatLe(a, b) THEN b ELSE a

RECURSIVE SumSeq(_)
SumSeq(s) == IF s = << >> THEN 0 ELSE Head(s) + SumSeq(Tail(s))

\* sorted(values) of a sequence of rationals
RECURSIVE SortAsc(_)
SortAsc(s) ==
    IF s = << >> THEN << >>
    ELSE LET i == CHOOSE a \in 1..Len(s) : \A b \in 1..Len(s) : RatLe(s[a], s[b])
         IN  << s[i] >> \o SortAsc(SubSeq(s, 1, i - 1) \o SubSeq(s, i + 1, Len(s)))

(***************************************************************************)
(* detect_dealer_by_avg_tx.                                                *)
(***************************************************************************)
\* lines 76-80: the transactions frame under DealerID and Quantity_KG
dealer_trans(trans, map) ==
    rename(trans, << << map.transactions.dealer_id, DealerID >>,
                     << map.transactions.quantity, Quantity_KG >> >>)

\* line 83: pd.to_numeric(..., errors="coerce").fillna(0.0) of one cell
dealer_quantity(cell) == fillna0(to_numeric(cell)).n

\* The dealers of the frame: value_counts and groupby both drop a missing key
dealer_keys(trans) ==
    {Cell(trans, trans.rows[r], DealerID) : r \in 1..Len(trans.rows)} \ {NaN}

dealer_rows(trans, d) ==
    Ascending({r \in 1..Len(trans.rows) : Cell(trans, trans.rows[r], DealerID) = d})

\* transaction_count leaving out the rows whose quantity is not a number
transaction_count_valid_only(trans, d) ==
    Cardinality({r \in 1..Len(trans.rows) :
                    /\ Cell(trans, trans.rows[r], DealerID) = d
                    /\ to_numeric(Cell(trans, trans.rows[r], Quantity_KG)).kind # "nan"})

\* line 86: value_counts(), the number of rows of each dealer
transaction_count(trans, d) == Len(dealer_rows(trans, d))

\* line 87: groupby("DealerID")["Quantity_KG"].sum()
total_kg(trans, d) ==
    LET rs == dealer_rows(trans, d)
    IN  SumSeq([i \in 1..Len(rs) |->
                   dealer_quantity(Cell(trans, trans.rows[rs[i]], Quantity_KG))])

\* lines 91-92: Total_KG / Transaction_Count (0.0 for a NaN quotient)
avg_kg_per_tx(total, count) == IF count = 0 THEN Rat(0, 1) ELSE Rat(total, count)

\* lines 86-89: the index of the summary is that of value_counts: by count,
\* largest first, equal counts in order of first appearance
count_before(trans, a, b) ==
    \/ transaction_count(trans, a) > transaction_count(trans, b)
    \/ /\ transaction_count(trans, a) = transaction_count(trans, b)
       /\ Head(dealer_rows(trans, a)) <= Head(dealer_rows(trans, b))

count_first(trans, keys) ==
    CHOOSE a \in keys : \A b \in keys : count_before(trans, a, b)

RECURSIVE count_order(_, _)
count_order(trans, keys) ==
    IF keys = {} THEN << >>
    ELSE << count_first(trans, keys) >>
         \o count_order(trans, keys \ {count_first(trans, keys)})

\* lines 86-92: one row of the summary, before Flag_AvgTx is added
summary_row(trans, d) ==
    [DealerID |-> d,
     Transaction_Count |-> transaction_count(trans, d),
     Total_KG |-> total_kg(trans, d),
     Avg_KG_per_Tx |-> avg_kg_per_tx(total_kg(trans, d), transaction_count(trans, d))]

dealer_summary(trans) ==
    LET order == count_order(trans, dealer_keys(trans))
    IN  [i \in 1..Len(order) |-> summary_row(trans, order[i])]

\* Series.quantile(q), linear interpolation between the order statistics:
\* position h / q[2] = (n - 1) * q, counted from 0
quantile_at(sorted, h, q) ==
    IF h % q[2] = 0 THEN sorted[(h \div q[2]) + 1]
    ELSE RatAdd(sorted[(h \div q[2]) + 1],
                RatMul(RatSub(sorted[(h \div q[2]) + 2], sorted[(h \div q[2]) + 1]),
                       Rat(h % q[2], q[2])))

quantile(values, q) == quantile_at(SortAsc(values), (Len(values) - 1) * q[1], q)

averages(summary) == [i \in 1..Len(summary) |-> summary[i].Avg_KG_per_Tx]

\* line 103
quantile_or_zero(summary, avg_tx_pct) ==
    IF summary # << >> THEN quantile(averages(summary), avg_tx_pct) ELSE Rat(0, 1)

\* lines 103-105
avg_threshold(summary, avg_tx_pct, min_avg) ==
    IF min_avg # None
    THEN RatMax(quantile_or_zero(summary, avg_tx_pct), min_avg)
    ELSE quantile_or_zero(summary, avg_tx_pct)

\* dealer_flag with > for >=
dealer_flag_strict(avg, threshold) == ~RatLe(avg, threshold)

\* line 110: Avg_KG_per_Tx >= avg_threshold
dealer_flag(avg, threshold) == RatLe(threshold, avg)

\* line 110: summary["Flag_AvgTx"] = ...
with_flag(row, threshold) ==
    [DealerID |-> row.DealerID,
     Transaction_Count |-> row.Transaction_Count,
     Total_KG |-> row.Total_KG,
     Avg_KG_per_Tx |-> row.Avg_KG_per_Tx,
     Flag_AvgTx |-> dealer_flag(row.Avg_KG_per_Tx, threshold)]

flag_summary(summary, threshold) ==
    [i \in 1..Len(summary) |-> with_flag(summary[i], threshold)]

\* line 111: summary[summary["Flag_AvgTx"]]
flagged_rows(summary) == SelectSeq(summary, LAMBDA row : row.Flag_AvgTx)

IndexOrders(n) ==
    {f \in [1..n -> 1..n] : \A i, j \in 1..n : i # j => f[i] # f[j]}

descending(rows, f) ==
    \A i \in 1..(Len(rows) - 1) :
        RatLe(rows[f[i + 1]].Avg_KG_per_Tx, rows[f[i]].Avg_KG_per_Tx)

\* line 111: sort_values(by="Avg_KG_per_Tx", ascending=False); the default
\* sort is not stable, so equal averages may come in any order
sort_desc_orders(rows) ==
    {[i \in 1..Len(rows) |-> rows[f[i]]] :
        f \in {g \in IndexOrders(Len(rows)) : descending(rows, g)}}

DealerResult(status, summary, flagged, threshold) ==
    [status |-> status, summary |-> summary, flagged |-> flagged,
     avg_threshold |-> threshold]

DealersNotRun == DealerResult("not run", << >>, << >>, Rat(0, 1))

\* lines 102-113, from the summary of lines 86-92
dealer_results(s0, threshold) ==
    {DealerResult("ok", flag_summary(s0, threshold), fl, threshold) :
        fl \in sort_desc_orders(flagged_rows(flag_summary(s0, threshold)))}

dealer_flagging(s0, avg_tx_pct, min_avg) ==
    dealer_results(s0, avg_threshold(s0, avg_tx_pct, min_avg))

\* The results the call may return: one per order of the flagged rows
detect_dealer_by_avg_tx(trans, map, avg_tx_pct, min_avg) ==
    IF \/ ~HasCol(dealer_trans(trans, map), Quantity_KG)
       \/ ~HasCol(dealer_trans(trans, map), DealerID)
    THEN {DealerResult("KeyError", << >>, << >>, Rat(0, 1))}
    ELSE dealer_flagging(dealer_summary(dealer_trans(trans, map)), avg_tx_pct, min_avg)

(***************************************************************************)
(* get_column_mapping: the keyword lists and the eight ask_column calls,   *)
(* in the order of lines 151-181.                                          *)
(***************************************************************************)
KwFarmerId ==
    << << "f", "a", "r", "m", "e", "r", "i", "d" >>,
       << "f", "a", "r", "m", "e", "r", "_", "i", "d" >>,
       << "i", "d" >>,
       << "f", "a", "r", "m", "e", "r" >> >>

KwName ==
    << << "n", "a", "m", "e" >>,
       << "f", "a", "r", "m", "e", "r", "_", "n", "a", "m", "e" >> >>

KwLand ==
    << << "l", "a", "n", "d" >>,
       << "a", "c", "r", "e" >>,
       << "a", "r", "e", "a" >> >>

KwTransId ==
    << << "t", "r", "a", "n", "s", "a", "c", "t", "i", "o", "n", "i", "d" >>,
       << "t", "x", "n" >>,
       << "t", "r", "a", "n", "_", "i", "d" >>,
       << "t", "r", "a", "n", "s", "a", "c", "t", "i", "o", "n", "_", "i", "d" >>,
       << "t", "r", "a", "n", "s", "a", "c", "t", "i", "o", "n" >> >>

KwDealer ==
    << << "d", "e", "a", "l", "e", "r", "i", "d" >>,
       << "d", "e", "a", "l", "e", "r", "_", "i", "d" >>,
       << "d", "e", "a", "l", "e", "r" >> >>

KwQuantity ==
    << << "q", "u", "a", "n", "t", "i", "t", "y" >>,
       << "q", "u", "a", "n", "t", "i", "t", "y", "_", "k", "g" >>,
       << "q", "t", "y" >>,
       << "k", "g" >> >>

KwVillage ==
    << << "v", "i", "l", "l", "a", "g", "e" >>,
       << "v", "i", "l", "l", "a", "g", "e", "i", "d" >>,
       << "v", "i", "l", "l", "a", "g", "e", "_", "i", "d" >>,
       << "v", "i", "l", "l", "a", "g", "e", "_", "n", "a", "m", "e" >> >>

Roles ==
    << [var |-> "fam_id_col", file |-> "farmers", keywords |-> KwFarmerId],
       [var |-> "trans_fid_col", file |-> "transactions", keywords |-> KwFarmerId],
       [var |-> "name_col", file |-> "farmers", keywords |-> KwName],
       [var |-> "land_col", file |-> "farmers", keywords |-> KwLand],
       [var |-> "trans_id_col", file |-> "transactions", keywords |-> KwTransId],
       [var |-> "dealer_col", file |-> "transactions", keywords |-> KwDealer],
       [var |-> "qty_col", file |-> "transactions", keywords |-> KwQuantity],
       [var |-> "village_col", file |-> "transactions", keywords |-> KwVillage] >>

\* role_optional with the land call wrapped in try / except as well
role_optional_with_land(r) ==
    Roles[r].var \in {"name_col", "village_col", "land_col"}

\* lines 157-160 and 180-183: the calls wrapped in try / except KeyError
role_optional(r) == Roles[r].var \in {"name_col", "village_col"}

\* lines 143-144: fam_cols or trans_cols
role_columns(r) ==
    IF Roles[r].file = "farmers" THEN df_farmers.cols ELSE df_trans.cols

\* [default] if default else None, then lines 20-25 of ask_column
role_default(r) ==
    LET found == auto_find_column(role_columns(r), Roles[r].keywords)
    IN  ask_default(role_columns(r),
                    IF found # None THEN << found >> ELSE << >>)

NoLocals ==
    [fam_id_col |-> Unset, trans_fid_col |-> Unset, name_col |-> Unset,
     land_col |-> Unset, trans_id_col |-> Unset, dealer_col |-> Unset,
     qty_col |-> Unset, village_col |-> Unset]

\* lines 185-198
build_mapping(l) ==
    [farmers |-> [farmer_id |-> l.fam_id_col, name |-> l.name_col,
                  land |-> l.land_col],
     transactions |-> [farmer_id |-> l.trans_fid_col,
                       transaction_id |-> l.trans_id_col,
                       dealer_id |-> l.dealer_col,
                       quantity |-> l.qty_col,
                       village |-> l.village_col]]

\* The parameter defaults (lines 69, 206) and main's arguments (281, 294-295)
DefaultLimitPerAcre == 100
DefaultPercentile == Rat(95, 100)

(***************************************************************************)
(* The inputs the model draws: column names, frames, and the lines the     *)
(* operator may type at a prompt.                                          *)
(***************************************************************************)
ColId == << "I", "d" >>
ColLand == << "L", "a", "n", "d" >>
ColNm == << "n", "m" >>
ColTxn == << "T", "x", "n" >>
ColFid == << "F", "i", "d" >>
ColDealer == << "D", "e", "a", "l", "e", "r" >>
ColKg == << "K", "g" >>

Text(c) == StrCell(<< c >>)

\* Two farmers files and two transactions files for a run of main(): one
\* whose headers the keyword lists detect, one whose headers they do not
FarmersFiles ==
    { Frame(<< ColId, Name, ColLand >>,
            << << IntCell(1), Text("x"), IntCell(2) >> >>),
      Frame(<< << "k" >>, ColNm, << "a", "c" >> >>,
            << << IntCell(1), Text("x"), IntCell(2) >> >>) }

TransFiles ==
    { Frame(<< ColTxn, ColFid, ColDealer, ColKg,
               << "V", "i", "l", "l", "a", "g", "e" >> >>,
            << << IntCell(1), IntCell(1), Text("A"), IntCell(250), Text("v") >>,
               << IntCell(2), IntCell(1), Text("B"), IntCell(200), Text("v") >> >>),
      Frame(<< << "t" >>, << "f" >>, << "d" >>, << "q" >> >>,
            << << IntCell(1), IntCell(1), Text("A"), IntCell(250) >>,
               << IntCell(2), IntCell(1), Text("B"), IntCell(200) >> >>) }

SwapCase(c) ==
    IF \E i \in 1..Len(LowerChars) : LowerChars[i] = c
    THEN UpperChars[CHOOSE i \in 1..Len(LowerChars) : LowerChars[i] = c]
    ELSE LowerChar(c)

\* The lines input() may return at a prompt over the given columns: nothing,
\* blanks, the first and the last column name, and the first column name
\* padded with blanks, in the other case, and cut short
InputLines(cols) ==
    LET c == cols[1]
    IN  { << >>, << " " >>, c, cols[Len(cols)],
          << " " >> \o c \o << " " >>,
          [i \in 1..Len(c) |-> SwapCase(c[i])],
          SubSeq(c, 1, Len(c) - 1) }

(***************************************************************************)
(* main(): the column mapping, one step per input() and per return of      *)
(* ask_column, then the two checks.                                        *)
(***************************************************************************)
\* line 43: after the first input(), return or ask again
after_first(valid) == IF valid THEN "returned" ELSE "input2"

\* after_retry asking again instead of raising
after_retry_looping(valid) == IF valid THEN "returned" ELSE "input2"

\* lines 50-52: after the second input(), return or raise KeyError
after_retry(valid) == IF valid THEN "returned" ELSE "raised"

\* lines 38-43: the first input() of the ask_column call in progress
Input1(line) ==
    /\ pc = "input1"
    /\ LET choice == ask_choice(line, role_default(role))
       IN  /\ resps' = << line >>
           /\ sel' = choice
           /\ pc' = after_first(ask_valid(choice, role_columns(role)))
    /\ UNCHANGED << df_farmers, df_trans, role, locals, mapping, limit_per_acre,
                    suspicious, avg_tx_percentile, min_avg_kg, dealers >>

\* lines 47-52: the second input()
Input2(line) ==
    /\ pc = "input2"
    /\ LET choice == ask_choice(line, role_default(role))
       IN  /\ resps' = Append(resps, line)
           /\ sel' = choice
           /\ pc' = after_retry(ask_valid(choice, role_columns(role)))
    /\ UNCHANGED << df_farmers, df_trans, role, locals, mapping, limit_per_acre,
                    suspicious, avg_tx_percentile, min_avg_kg, dealers >>

\* get_column_mapping goes on with the value v for the call in progress: the
\* next ask_column call, or lines 185-201 after the last
GoOn(v) ==
    /\ locals' = [locals EXCEPT ![Roles[role].var] = v]
    /\ resps' = << >>
    /\ sel' = Unset
    /\ IF role < Len(Roles)
       THEN /\ role' = role + 1
            /\ pc' = "input1"
            /\ mapping' = mapping
       ELSE /\ role' = role
            /\ pc' = "check1"
            /\ mapping' = build_mapping(locals')

\* ask_column returned sel: the assignment of lines 151-181
Returned ==
    /\ pc = "returned"
    /\ GoOn(sel)
    /\ UNCHANGED << df_farmers, df_trans, limit_per_acre, suspicious,
                    avg_tx_percentile, min_avg_kg, dealers >>

\* ask_column raised KeyError: caught for an optional role (None), and
\* propagated out of get_column_mapping and main for any other
Raised ==
    /\ pc = "raised"
    /\ IF role_optional(role)
       THEN GoOn(None)
       ELSE /\ pc' = "aborted"
            /\ UNCHANGED << role, locals, resps, sel, mapping >>
    /\ UNCHANGED << df_farmers, df_trans, limit_per_acre, suspicious,
                    avg_tx_percentile, min_avg_kg, dealers >>

\* line 281: CHECK 1
Check1 ==
    /\ pc = "check1"
    /\ limit_per_acre' = DefaultLimitPerAcre
    /\ suspicious' = detect_land_mismatch_with_mapping(
                         df_farmers, df_trans, mapping, DefaultLimitPerAcre)
    /\ pc' = IF suspicious'.status = "ok" THEN "check2" ELSE "crashed"
    /\ UNCHANGED << df_farmers, df_trans, role, locals, resps, sel, mapping,
                    avg_tx_percentile, min_avg_kg, dealers >>

\* lines 293-295: CHECK 2
Check2 ==
    /\ pc = "check2"
    /\ avg_tx_percentile' = DefaultPercentile
    /\ min_avg_kg' = None
    /\ dealers' \in detect_dealer_by_avg_tx(df_trans, mapping,
                                            DefaultPercentile, None)
    /\ pc' = IF dealers'.status = "ok" THEN "done" ELSE "crashed"
    /\ UNCHANGED << df_farmers, df_trans, role, locals, resps, sel, mapping,
                    limit_per_acre, suspicious >>

Init ==
    /\ df_farmers \in FarmersFiles
    /\ df_trans \in TransFiles
    /\ pc = "input1"
    /\ role = 1
    /\ locals = NoLocals
    /\ resps = << >>
    /\ sel = Unset
    /\ mapping = NoMapping
    /\ limit_per_acre = DefaultLimitPerAcre
    /\ suspicious = NotRun
    /\ avg_tx_percentile = DefaultPercentile
    /\ min_avg_kg = None
    /\ dealers = DealersNotRun

Next ==
    \/ \E line \in InputLines(role_columns(role)) : Input1(line)
    \/ \E line \in InputLines(role_columns(role)) : Input2(line)
    \/ Returned
    \/ Raised
    \/ Check1
    \/ Check2

Spec == Init /\ [][Next]_vars

(***************************************************************************)
(* The land-mismatch detector as a function of its arguments: the frames   *)
(* and the name mapping are drawn by InitLand, the limit by each call.     *)
(***************************************************************************)
SeqsUpTo(S, n) == UNION {[1..k -> S] : k \in 0..n}

\* A farmers header and the column mapped to the name role: no name column,
\* a name column mapped or left unmapped, and a column literally named Name
\* mapped or left unmapped
LandCases ==
    { << << ColId, ColLand >>, None >>,
      << << ColId, ColLand, ColNm >>, ColNm >>,
      << << ColId, ColLand, ColNm >>, None >>,
      << << ColId, ColLand, Name >>, Name >>,
      << << ColId, ColLand, Name >>, None >> }

FarmerIdCells == {IntCell(1), NaN}
LandCells == {IntCell(2), IntCell(-1), NaN}
TransFarmerIdCells == {StrCell(<< "1" >>), NaN}
QuantityCells == {IntCell(250), IntCell(200), IntCell(-150), StrCell(<< "a", "b", "c" >>)}
Limits == {100, 200}

TransHeader == << ColTxn, ColFid, ColDealer, ColKg >>

FarmersFrame(cols, cells) ==
    Frame(cols,
          [i \in 1..Len(cells) |->
              << cells[i][1], cells[i][2] >>
              \o (IF Len(cols) > 2 THEN << Text("x") >> ELSE << >>)])

TransFrame(cells) ==
    Frame(TransHeader,
          [i \in 1..Len(cells) |->
              << IntCell(i), cells[i][1], Text("A"), cells[i][2] >>])

\* The mapping get_column_mapping builds when the operator maps every role
\* to its own column, the name role to name_col, and no village
StraightMapping(name_col) ==
    build_mapping([fam_id_col |-> ColId, trans_fid_col |-> ColFid,
                   name_col |-> name_col, land_col |-> ColLand,
                   trans_id_col |-> ColTxn, dealer_col |-> ColDealer,
                   qty_col |-> ColKg, village_col |-> None])

InitLand ==
    /\ \E case \in LandCases :
          /\ \E cells \in SeqsUpTo(FarmerIdCells \X LandCells, MaxFarmers) :
                df_farmers = FarmersFrame(case[1], cells)
          /\ mapping = StraightMapping(case[2])
    /\ \E cells \in SeqsUpTo(TransFarmerIdCells \X QuantityCells, MaxTrans) :
          df_trans = TransFrame(cells)
    /\ pc = "land"
    /\ role = Len(Roles)
    /\ locals = NoLocals
    /\ resps = << >>
    /\ sel = Unset
    /\ limit_per_acre = DefaultLimitPerAcre
    /\ suspicious = NotRun
    /\ avg_tx_percentile = DefaultPercentile
    /\ min_avg_kg = None
    /\ dealers = DealersNotRun

\* A call detect_land_mismatch_with_mapping(df_farmers, df_trans, mapping, limit)
LandDetect(limit) ==
    /\ pc = "land"
    /\ limit_per_acre' = limit
    /\ suspicious' = detect_land_mismatch_with_mapping(df_farmers, df_trans,
                                                       mapping, limit)
    /\ UNCHANGED << df_farmers, df_trans, pc, role, locals, resps, sel, mapping,
                    avg_tx_percentile, min_avg_kg, dealers >>

NextLand == \E limit \in Limits : LandDetect(limit)

SpecLand == InitLand /\ [][NextLand]_vars

(***************************************************************************)
(* The dealer detector as a function of its arguments.                     *)
(***************************************************************************)
DealerCells == {Text("A"), Text("B"), Text("C"), NaN}
DealerQuantityCells == {IntCell(10), IntCell(1000), StrCell(<< "a", "b", "c" >>)}
Percentiles == {Rat(95, 100), Rat(1, 2)}
MinAverages == {None, Rat(15, 1)}

DealerTransFrame(cells) ==
    Frame(TransHeader,
          [i \in 1..Len(cells) |->
              << IntCell(i), IntCell(1), cells[i][1], cells[i][2] >>])

InitDealer ==
    /\ \E cells \in SeqsUpTo(DealerCells \X DealerQuantityCells, MaxDealerTx) :
          df_trans = DealerTransFrame(cells)
    /\ df_farmers = FarmersFrame(<< ColId, ColLand >>, << >>)
    /\ mapping = StraightMapping(None)
    /\ pc = "dealer"
    /\ role = Len(Roles)
    /\ locals = NoLocals
    /\ resps = << >>
    /\ sel = Unset
    /\ limit_per_acre = DefaultLimitPerAcre
    /\ suspicious = NotRun
    /\ avg_tx_percentile = DefaultPercentile
    /\ min_avg_kg = None
    /\ dealers = DealersNotRun

\* A call detect_dealer_by_avg_tx(df_trans, mapping, pct, min_avg)
DealerDetect(pct, min_avg) ==
    /\ pc = "dealer"
    /\ avg_tx_percentile' = pct
    /\ min_avg_kg' = min_avg
    /\ dealers' \in detect_dealer_by_avg_tx(df_trans, mapping, pct, min_avg)
    /\ pc' = "dealer_done"
    /\ UNCHANGED << df_farmers, df_trans, role, locals, resps, sel, mapping,
                    limit_per_acre, suspicious >>

NextDealer ==
    \E pct \in Percentiles : \E min_avg \in MinAverages : DealerDetect(pct, min_avg)

SpecDealer == InitDealer /\ [][NextDealer]_vars

(***************************************************************************)
(* Properties of the column mapping, checked under Spec.                   *)
(***************************************************************************)
\* name is, character for character, one of the names of cols
IsColumn(name, cols) == \E i \in 1..Len(cols) : cols[i] = name

\* The choice ask_column made of its i-th input() line
ChoiceOf(i) == ask_choice(resps[i], role_default(role))

ColumnsOfVar(var) ==
    IF var \in {"fam_id_col", "name_col", "land_col"}
    THEN df_farmers.cols ELSE df_trans.cols

\* C1: whenever ask_column returns, the value it returns is one of the given
\* columns; the only other way out is the KeyError, raised on a selection
\* that is not a column.  So every value get_column_mapping holds for a role
\* is a column of that role's file, or None.
C1_ReturnsAColumn ==
    /\ pc = "returned" => IsColumn(sel, role_columns(role))
    /\ pc = "raised" => ~IsColumn(sel, role_columns(role))
    /\ \A var \in DOMAIN locals :
          locals[var] \in {Unset, None} \/ IsColumn(locals[var], ColumnsOfVar(var))

\* ask_column has returned a column the operator typed at the second prompt
C1_Witness ==
    /\ pc = "returned"
    /\ Len(resps) = 2
    /\ sel # role_default(role)
    /\ IsColumn(sel, role_columns(role))

\* C2: one ask_column call reads at most two lines: the second is read
\* exactly when the first choice is not a column, the call returns after one
\* line only on a valid first choice, and it raises KeyError exactly after
\* two invalid choices; a third line is never read.
C2_AtMostTwoResponses ==
    /\ Len(resps) <= 2
    /\ pc = "input1" => Len(resps) = 0
    /\ pc = "input2" =>
          Len(resps) = 1 /\ ~IsColumn(ChoiceOf(1), role_columns(role))
    /\ pc = "returned" =>
          \/ Len(resps) = 1 /\ IsColumn(ChoiceOf(1), role_columns(role))
          \/ /\ Len(resps) = 2
             /\ ~IsColumn(ChoiceOf(1), role_columns(role))
             /\ IsColumn(ChoiceOf(2), role_columns(role))
    /\ pc = "raised" =>
          /\ Len(resps) = 2
          /\ ~IsColumn(ChoiceOf(1), role_columns(role))
          /\ ~IsColumn(ChoiceOf(2), role_columns(role))

\* ask_column raised KeyError after two invalid choices
C2_Witness ==
    /\ pc = "raised"
    /\ Len(resps) = 2
    /\ ~IsColumn(ChoiceOf(2), role_columns(role))

\* C3: when ask_column fails for a required role the run aborts there: no
\* later role is prompted, no mapping is built and no detector runs (an
\* aborted run takes no further step).  When it fails for the name or the
\* village role, the role is recorded as None and get_column_mapping goes on:
\* to the land role after the name, to the built mapping after the village.
C3_AbortOrUnset ==
    [][
        /\ (pc = "raised" /\ Roles[role].var \notin {"name_col", "village_col"}) =>
              /\ pc' = "aborted"
              /\ locals' = locals
        /\ (pc = "raised" /\ Roles[role].var = "name_col") =>
              /\ locals' = [locals EXCEPT !.name_col = None]
              /\ pc' = "input1"
              /\ Roles[role'].var = "land_col"
        /\ (pc = "raised" /\ Roles[role].var = "village_col") =>
              /\ pc' = "check1"
              /\ mapping' = build_mapping([locals EXCEPT !.village_col = None])
        /\ pc' = "aborted" =>
              /\ mapping' = NoMapping
              /\ suspicious' = NotRun
              /\ dealers' = DealersNotRun
        /\ pc # "aborted"
    ]_vars

\* A run that recorded the name role as None and later aborted on a
\* required role
C3_Witness ==
    /\ pc = "aborted"
    /\ locals.name_col = None
    /\ Roles[role].var \notin {"name_col", "village_col"}

\* C10 as stated: a non-empty line is accepted only when the line as given
\* is exactly a column name.
C10_ExactAsGiven ==
    (pc = "returned" /\ resps[Len(resps)] # << >>) =>
        /\ IsColumn(resps[Len(resps)], role_columns(role))
        /\ sel = resps[Len(resps)]

\* C10, amended: a line that is not empty once its leading and trailing
\* whitespace is stripped is accepted only when the stripped line is exactly
\* a column name, and then that column is the one returned; a stripped line
\* that differs from every column name (by case, or as a partial name) is an
\* invalid attempt.
C10_ExactAfterStrip ==
    \A i \in 1..Len(resps) :
        str_strip(resps[i]) # << >> =>
            /\ IsColumn(str_strip(resps[i]), role_columns(role))
                   <=> (i = Len(resps) /\ pc = "returned")
            /\ (i = Len(resps) /\ pc = "returned") => sel = str_strip(resps[i])

\* ask_column returned the column typed with blanks around its name
C10_Witness ==
    /\ pc = "returned"
    /\ str_strip(resps[Len(resps)]) # << >>
    /\ str_strip(resps[Len(resps)]) # resps[Len(resps)]
    /\ sel = str_strip(resps[Len(resps)])

(***************************************************************************)
(* Properties of the land-mismatch detector, checked under SpecLand, where *)
(* every role is mapped to its own column and transaction i has            *)
(* TransactionID i.                                                        *)
(***************************************************************************)
\* The cell of output row r under column c
OutCell(r, c) ==
    suspicious.rows[r][CHOOSE i \in 1..Len(suspicious.cols) : suspicious.cols[i] = c]

OutRows == 1..Len(suspicious.rows)
TransIdx == 1..Len(df_trans.rows)
FarmerIdx == 1..Len(df_farmers.rows)

\* The source cells of transaction t and of farmer f
TransFarmerId(t) == df_trans.rows[t][2]
TransQuantity(t) == df_trans.rows[t][4]
FarmerId(f) == df_farmers.rows[f][1]
FarmerLand(f) == df_farmers.rows[f][2]

\* The left join pairs transaction t with farmer f
Joined(t, f) ==
    astype_str(column_value(df_trans, df_trans.cols[2], TransFarmerId(t)))
        = astype_str(column_value(df_farmers, df_farmers.cols[1], FarmerId(f)))

Known(cell) == to_numeric(cell).kind # "nan"
Value(cell) == to_numeric(cell).n

\* Output row r is the joined row of transaction t and farmer f
RowOf(r, t, f) ==
    /\ OutCell(r, TransactionID) = IntCell(t)
    /\ OutCell(r, LandSize_Acres) = to_numeric(FarmerLand(f))
    /\ OutCell(r, Quantity_KG) = to_numeric(TransQuantity(t))

Exceeds(t, f) ==
    /\ Known(TransQuantity(t))
    /\ Known(FarmerLand(f))
    /\ Value(TransQuantity(t)) > Value(FarmerLand(f)) * limit_per_acre

\* C4: a joined (transaction, farmer) row is in the flagged output exactly
\* when its quantity and its land size are both known numbers and the
\* quantity is greater than land size * limit_per_acre; a quantity equal to
\* the ceiling, or unknown, is never flagged; every flagged row carries
\* Max_Allowed_KG = land size * limit_per_acre; and the output holds one row
\* per such pair and nothing else.
C4_FlaggedIffExceeds ==
    suspicious.status = "ok" =>
        /\ \A t \in TransIdx : \A f \in FarmerIdx :
              Joined(t, f) => ((\E r \in OutRows : RowOf(r, t, f)) <=> Exceeds(t, f))
        /\ \A r \in OutRows :
              /\ OutCell(r, LandSize_Acres).kind = "int"
              /\ OutCell(r, Quantity_KG).kind = "int"
              /\ OutCell(r, Max_Allowed_KG)
                     = IntCell(OutCell(r, LandSize_Acres).n * limit_per_acre)
              /\ OutCell(r, Quantity_KG).n > OutCell(r, Max_Allowed_KG).n
              /\ \E t \in TransIdx : \E f \in FarmerIdx : Joined(t, f) /\ RowOf(r, t, f)
        /\ Len(suspicious.rows)
               = Cardinality({p \in TransIdx \X FarmerIdx :
                                 Joined(p[1], p[2]) /\ Exceeds(p[1], p[2])})

\* Land size 2 and limit 100: quantity 250 is flagged with ceiling 200 while
\* a quantity of 200 would not be
C4_Witness ==
    /\ suspicious.status = "ok"
    /\ limit_per_acre = 100
    /\ \E r \in OutRows :
          /\ OutCell(r, LandSize_Acres) = IntCell(2)
          /\ OutCell(r, Quantity_KG) = IntCell(250)
          /\ OutCell(r, Max_Allowed_KG) = IntCell(200)

\* Transaction t names a farmer of the farmers data: its FarmerID is not
\* missing and is the FarmerID of some farmer row
HasFarmer(t) ==
    /\ TransFarmerId(t).kind # "nan"
    /\ \E f \in FarmerIdx :
          FarmerId(f).kind # "nan" /\ Joined(t, f)

\* C5: a transaction whose FarmerID has no corresponding FarmerID in the
\* farmers data, a missing FarmerID included, is never in the flagged
\* output, whatever its quantity.
C5_UnmatchedNeverFlagged ==
    suspicious.status = "ok" =>
        \A t \in TransIdx :
            ~HasFarmer(t) => ~\E r \in OutRows : OutCell(r, TransactionID) = IntCell(t)

\* The flagged joined rows, without the ceiling (which depends on the limit)
FlaggedRows ==
    {<< OutCell(r, TransactionID), OutCell(r, FarmerID),
        OutCell(r, LandSize_Acres), OutCell(r, Quantity_KG) >> : r \in OutRows}

Again ==
    /\ suspicious.status = "ok"
    /\ suspicious'.status = "ok"
    /\ limit_per_acre' > limit_per_acre

C8_NoNameFieldWhenUnset ==
    (suspicious # NotRun /\ mapping.farmers.name = None) =>
        /\ suspicious.status = "ok"
        /\ ~IsColumn(Name, suspicious.cols)

(***************************************************************************)
(* Properties of the dealer detector, checked under SpecDealer, where      *)
(* DealerID is the third and Quantity the fourth column of df_trans.       *)
(***************************************************************************)
Summary == 1..Len(dealers.summary)
Flagged == 1..Len(dealers.flagged)
Average(i) == dealers.summary[i].Avg_KG_per_Tx

\* The dealers of df_trans, and the transactions of dealer d
TransDealers == {df_trans.rows[t][3] : t \in TransIdx} \ {NaN}
TransOf(d) == {t \in TransIdx : df_trans.rows[t][3] = d}

\* The quantity of transaction t, 0 when it is missing or not a number
QuantityOrZero(t) ==
    IF Known(df_trans.rows[t][4]) THEN Value(df_trans.rows[t][4]) ELSE 0

TotalOf(d) ==
    SumSeq([t \in TransIdx |-> IF t \in TransOf(d) THEN QuantityOrZero(t) ELSE 0])

\* C9: the summary has exactly one row per dealer of the transactions; its
\* Transaction_Count is the number of the dealer's transactions (>= 1, the
\* ones with a missing or non-numeric quantity included), its Total_KG the
\* sum of their quantities with a missing or non-numeric one counted as 0,
\* and its Avg_KG_per_Tx equals Total_KG / Transaction_Count.
C9_SummaryPerDealer ==
    dealers.status = "ok" =>
        /\ Len(dealers.summary) = Cardinality(TransDealers)
        /\ \A d \in TransDealers : \E i \in Summary :
              /\ dealers.summary[i].DealerID = d
              /\ dealers.summary[i].Transaction_Count = Cardinality(TransOf(d))
              /\ dealers.summary[i].Transaction_Count >= 1
              /\ dealers.summary[i].Total_KG = TotalOf(d)
              /\ Average(i)[2] > 0
              /\ Average(i)[1] * dealers.summary[i].Transaction_Count
                     = dealers.summary[i].Total_KG * Average(i)[2]

\* A dealer with one transaction of 10 kg and one whose quantity is not a
\* number: count 2, total 10, average 5
C9_Witness ==
    /\ dealers.status = "ok"
    /\ \E i \in Summary :
          /\ dealers.summary[i].Transaction_Count = 2
          /\ dealers.summary[i].Total_KG = 10
          /\ Average(i) = << 5, 1 >>
          /\ \E t \in TransOf(dealers.summary[i].DealerID) : ~Known(df_trans.rows[t][4])

\* The k-th smallest of the averages, k counted from 1
OrderStatistic(k) ==
    CHOOSE v \in {Average(i) : i \in Summary} :
        /\ Cardinality({i \in Summary : ~RatLe(v, Average(i))}) < k
        /\ Cardinality({i \in Summary : RatLe(Average(i), v)}) >= k

\* The percentile position among n averages is Position / Denominator,
\* counted from 0
Position == (Len(dealers.summary) - 1) * avg_tx_percentile[1]
Denominator == avg_tx_percentile[2]
Below == (Position \div Denominator) + 1

InterpolatedQuantile ==
    IF Position % Denominator = 0 THEN OrderStatistic(Below)
    ELSE RatAdd(OrderStatistic(Below),
                RatMul(RatSub(OrderStatistic(Below + 1), OrderStatistic(Below)),
                       Rat(Position % Denominator, Denominator)))

RaisedToFloor(q) == IF min_avg_kg = None THEN q ELSE RatMax(q, min_avg_kg)

AtOrAbove(i) == RatLe(dealers.avg_threshold, Average(i))

\* flagged is the summary rows at or above the threshold, highest first
FlaggedAtOrAboveThreshold ==
    /\ \A i \in Summary :
          AtOrAbove(i) <=> \E j \in Flagged : dealers.flagged[j] = dealers.summary[i]
    /\ \A j \in Flagged : \E i \in Summary : dealers.flagged[j] = dealers.summary[i]
    /\ Len(dealers.flagged) = Cardinality({i \in Summary : AtOrAbove(i)})
    /\ \A j \in Flagged : j < Len(dealers.flagged) =>
          RatLe(dealers.flagged[j + 1].Avg_KG_per_Tx, dealers.flagged[j].Avg_KG_per_Tx)

\* C7 as stated: flagged is exactly the dealers with average >= avg_threshold,
\* in descending order of average; avg_threshold is the interpolated
\* quantile raised to min_avg_kg when a floor is supplied; with zero
\* dealers the threshold is 0 and nothing is flagged.
C7_ZeroDealersThresholdZero ==
    dealers.status = "ok" =>
        /\ FlaggedAtOrAboveThreshold
        /\ dealers.summary # << >> =>
              dealers.avg_threshold = RaisedToFloor(InterpolatedQuantile)
        /\ dealers.summary = << >> =>
              dealers.avg_threshold = Rat(0, 1) /\ dealers.flagged = << >>

\* C7, amended: as above, but with zero dealers it is the quantile that is
\* taken as 0, so the threshold is 0 without a floor and the floor with one.
C7_FlaggedAtOrAboveThreshold ==
    dealers.status = "ok" =>
        /\ FlaggedAtOrAboveThreshold
        /\ dealers.summary # << >> =>
              dealers.avg_threshold = RaisedToFloor(InterpolatedQuantile)
        /\ dealers.summary = << >> =>
              dealers.avg_threshold = RaisedToFloor(Rat(0, 1)) /\ dealers.flagged = << >>

\* Three dealers with averages 0, 10 and 1000 at the median: the threshold
\* is 10, the dealer at 10 is flagged after the dealer at 1000, the dealer
\* at 0 is not
C7_Witness ==
    /\ dealers.status = "ok"
    /\ Len(dealers.summary) = 3
    /\ Len(dealers.flagged) = 2
    /\ dealers.avg_threshold = Rat(10, 1)
    /\ dealers.flagged[1].Avg_KG_per_Tx = Rat(1000, 1)
    /\ dealers.flagged[2].Avg_KG_per_Tx = Rat(10, 1)

====
